---- MODULE Spec2Model ----
(***************************************************************************)
(* The playback session of src/src/app/player.tsx (the MusicPlayer         *)
(* component at lines 12-885), together with the audio element, the timers *)
(* and the promises it drives.                                             *)
(*                                                                         *)
(* React state is modelled twice: the state proper (what the setters have  *)
(* written) and `view`, the values of the last render, which are the ones  *)
(* the handlers' closures read.  A render copies the state into the view   *)
(* and runs the effects whose dependencies changed.  Discrete events       *)
(* (click, mousedown, mouseup, touchstart, touchend, play, pause) are      *)
(* rendered before the next task; every other update waits for Render.     *)
(*                                                                         *)
(* Positions and durations are in units of 50 ms.                          *)
(***************************************************************************)
EXTENDS Integers, Sequences, FiniteSets, TLC

\* ------------------------------------------------------------------ bounds
MaxTimers == 3        \* pending setTimeout callbacks
MaxRetryTimers == 4   \* pending setTimeout callbacks when all are retry timers
MaxPlays == 2         \* play() promises not yet settled
MaxResumes == 2       \* AudioContext.resume()/close() promises not yet settled
MaxFetches == 1       \* catalog fetches in flight
MaxRetry == 4         \* cap of the model on retryCount
MaxFailures == 4      \* the consecutive failures counted
MaxContexts == 2      \* the audio contexts created

\* --------------------------------------------------------------- constants
RetryLimit == 3       \* player.tsx:424  if (retryCount < 3)
NearEnd == 2          \* player.tsx:650  timeLeft < 0.1
MinForcedEnd == 20    \* player.tsx:650  audioRef.current.duration > 1
PlayDelay == 300      \* player.tsx:321  setTimeout(..., 300)
RetryDelay == 1000    \* player.tsx:437  setTimeout(..., 1000)

NoTrack == "null"
NoError == "null"
TrackA == "a.mp3"
TrackB == "b.mp3"
Tracks == {TrackA, TrackB}

\* what public/music can hold (route.ts:8-18): nothing, one file, two files
Listings == {<<>>, <<TrackA>>, <<TrackA, TrackB>>}

\* the length of each file: 1 s, which the near-end check leaves alone, and 2 s
TrackDuration(t) == IF t = TrackA THEN 20 ELSE 40
NaN == -1

\* getBoundingClientRect() of the progress bar, and the pointer positions tried
rect == [left |-> 1, width |-> 2]
PointerXs == {0, 2, 4}
BarXs == rect.left .. rect.left + rect.width

Min(a, b) == IF a < b THEN a ELSE b
Max(a, b) == IF a > b THEN a ELSE b

VARIABLES
  tracks, currentTrack, isPlaying, error, muted, showStartOverlay, isLoading,
  retryCount, currentTime, duration, isDragging,
  view,              \* the state as of the last render (what closures read)
  tracksFresh,       \* setTracks stored a new array since the last render
  progressInterval,  \* progressIntervalRef and the closure of its updateProgress
  trackEnded,        \* trackEndedRef
  ctx,               \* audioContextRef: "null", "starting", "suspended", "running"
  el,                \* the audio element
  timers,            \* pending setTimeout callbacks, oldest first
  resumes,           \* continuations waiting on resume() / close()
  fetches,           \* the catalog fetches in flight, by the currentTrack of their closure
  dragCl,            \* the document-level drag listeners and their closure
  mayPlay,           \* the browser lets play() start playback
  hidden,            \* document.visibilityState = "hidden"
  catalog,           \* the .mp3 files of public/music, as GET /api/music lists them
  broken,            \* the files among them the browser cannot load
  audio,             \* the audio contexts made, the one audioContextRef holds (cur),
                     \* the ones not closed (live), and the visualizer: its
                     \* audioContext prop, the contexts of its analyser and source,
                     \* the analysers it created (nodes), whether its analyser is
                     \* connected to the destination (out), whether the element
                     \* is connected to a source node (bound), and whether the
                     \* browser's error for a second source node names
                     \* "MediaElementAudioSource" (named)
  failures,          \* the error events of the element's source in a row, with
                     \* no play() fulfilled in between
  last               \* the handler that ran last, what it did (the promise
                     \* reactions it ran, the seeks, selections, play() calls
                     \* and timers it made) and what it found (isPlaying, the
                     \* retryCount its closure read, currentTrack)

vars == <<tracks, currentTrack, isPlaying, error, muted, showStartOverlay, isLoading,
          retryCount, currentTime, duration, isDragging, view, tracksFresh,
          progressInterval, trackEnded, ctx, el, timers,
          resumes, fetches, dragCl, mayPlay, hidden, catalog, broken,
          audio, failures, last>>

\* --------------------------------------------------------------- the state
\* The whole state as one record, so that a handler is a function from state
\* to state; jobs (the microtask queue) and ran (the promise continuations run
\* in this step) are empty between steps, rnd is this step's Math.random().
St(r) ==
  [tracks |-> tracks, currentTrack |-> currentTrack, isPlaying |-> isPlaying,
   error |-> error, muted |-> muted, showStartOverlay |-> showStartOverlay,
   isLoading |-> isLoading, retryCount |-> retryCount, currentTime |-> currentTime,
   duration |-> duration, isDragging |-> isDragging, view |-> view,
   tracksFresh |-> tracksFresh, progressInterval |-> progressInterval,
   trackEnded |-> trackEnded, ctx |-> ctx, el |-> el, timers |-> timers,
   resumes |-> resumes, fetches |-> fetches, dragCl |-> dragCl,
   mayPlay |-> mayPlay, hidden |-> hidden, audio |-> audio,
   jobs |-> <<>>, ran |-> <<>>, rnd |-> r, seeks |-> 0, selected |-> 0,
   plays |-> 0, sets |-> 0]

\* the values of a render, read by the closures created in it
Snapshot(s) ==
  [tracks |-> s.tracks, currentTrack |-> s.currentTrack, isPlaying |-> s.isPlaying,
   error |-> s.error, muted |-> s.muted, showStartOverlay |-> s.showStartOverlay,
   isLoading |-> s.isLoading, retryCount |-> s.retryCount, duration |-> s.duration,
   isDragging |-> s.isDragging]

Dirty(s) == s.tracksFresh \/ Snapshot(s) # s.view

\* a continuation (timer callback, promise reaction) and what its closure holds
\* (the values its code never reads are left at their defaults)
Cont(s, k) ==
  [k |-> k,
   drag |-> IF k \in {"init", "log", "errRetry"} THEN FALSE ELSE s.view.isDragging,
   playing |-> IF k = "visible" THEN s.view.isPlaying ELSE FALSE,
   overlay |-> IF k = "reset" THEN s.view.showStartOverlay ELSE FALSE,
   cur |-> IF k \in {"start", "ended", "manual", "reset"} THEN s.view.currentTrack
           ELSE NoTrack,
   tracks |-> IF k = "errRetry" THEN s.view.tracks ELSE <<>>]

\* progressIntervalRef: whether it holds an interval (on), the isDragging of
\* the updateProgress of that interval (drag), and the intervals that were
\* created and not cleared (live)
NoInterval == [on |-> FALSE, drag |-> FALSE, live |-> 0]
NoAudio == [made |-> 0, cur |-> 0, live |-> {}, prop |-> 0, analyser |-> 0,
            source |-> 0, attempted |-> FALSE, bound |-> FALSE, out |-> FALSE,
            nodes |-> 0, named |-> FALSE]
NoDrag == [on |-> FALSE, touch |-> FALSE, drag |-> FALSE, dur |-> 0]

\* ------------------------------------------------------- progress tracking
\* player.tsx:77-82
stopProgressTracking(s) ==
  IF s.progressInterval.on
  THEN [s EXCEPT !.progressInterval = [on |-> FALSE, drag |-> FALSE, live |-> @.live - 1]]
  ELSE s

\* startProgressTracking not clearing the interval the ref holds
startProgressTracking_Leaks(s, c) ==
  [s EXCEPT !.progressInterval = [on |-> TRUE, drag |-> c.drag, live |-> @.live + 1]]

\* player.tsx:71-74; c is the closure whose updateProgress the interval calls
startProgressTracking(s, c) ==
  LET s1 == stopProgressTracking(s)
  IN  [s1 EXCEPT !.progressInterval =
                   [on |-> TRUE, drag |-> c.drag, live |-> s1.progressInterval.live + 1]]

\* player.tsx:59-68, called by the interval every 100 ms.  The duration of
\* the closure only decides whether setDuration is called with the duration
\* of the element, and storing the value the state already holds changes
\* nothing, so the outcome is that of calling it whenever it is a number.
updateProgress(s) ==
  LET c == s.progressInterval
      d == IF s.el.net = "ready" THEN TrackDuration(s.el.src) ELSE NaN
  IN  IF c.drag THEN s
      ELSE [s EXCEPT !.currentTime = s.el.time,
                     !.duration = IF d # NaN THEN d ELSE @]

\* ------------------------------------------------------- the audio element
\* The <audio> element of player.tsx:860-882, as the HTML standard has it
\* behave.  net: "empty" (no source), "loading", "ready" (metadata and data
\* there), "failed" (the source could not be loaded).  pend: the play()
\* promises not yet settled.  elq: the element's queued tasks.
elDuration(s) == IF s.el.net = "ready" THEN TrackDuration(s.el.src) ELSE NaN
readyState0(s) == s.el.net # "ready"

\* the reaction c of a play() promise that settled; track is the source the
\* element had when play() was called
Job(c, ok, track) == [c |-> c, ok |-> ok, track |-> track]
Jobs(ps, ok, track) == [i \in 1 .. Len(ps) |-> Job(ps[i], ok, track)]
RECURSIVE QueuedJobs(_, _)
\* the promises the queued tasks of the element would settle, settled at once
QueuedJobs(q, track) ==
  IF q = <<>> THEN <<>>
  ELSE Jobs(Head(q).ps, Head(q).t = "resolve", track) \o QueuedJobs(Tail(q), track)

\* audioRef.current.play(), with c the reactions attached to its promise
elPlay(s, c) ==
  LET s0 == [s EXCEPT !.plays = @ + 1] IN
  IF ~s0.mayPlay \/ s0.el.net = "failed"
  THEN [s0 EXCEPT !.jobs = Append(@, Job(c, FALSE, s.el.src))]
  ELSE LET ps == Append(s0.el.pend, c)
           atEnd == s0.el.net = "ready" /\ s0.el.time = elDuration(s0)
           t == IF atEnd THEN 0 ELSE s0.el.time
           q1 == IF s0.el.paused
                 THEN Append(s0.el.elq, [t |-> "play", ps |-> <<>>])
                 ELSE s0.el.elq
       IN  IF s0.el.net = "ready"
           THEN [s0 EXCEPT !.el.paused = FALSE, !.el.time = t, !.el.pend = <<>>,
                           !.el.elq = Append(q1, [t |-> "resolve", ps |-> ps])]
           ELSE [s0 EXCEPT !.el.paused = FALSE, !.el.time = t, !.el.pend = ps,
                           !.el.elq = q1]

\* audioRef.current.pause()
elPause(s) ==
  IF s.el.paused THEN s
  ELSE [s EXCEPT !.el.paused = TRUE, !.el.pend = <<>>,
                 !.el.elq = Append(@, [t |-> "pause", ps |-> s.el.pend])]

\* audioRef.current.src = ...; audioRef.current.load()
elLoad(s, src) ==
  [s EXCEPT !.jobs = @ \o QueuedJobs(s.el.elq, s.el.src) \o Jobs(s.el.pend, FALSE, s.el.src),
            !.el = [src |-> src, paused |-> TRUE, time |-> 0,
                    net |-> IF src = NoTrack THEN "empty" ELSE "loading",
                    pend |-> <<>>, elq |-> <<>>]]

\* audioRef.current.currentTime = t
elSeek(s, t) ==
  [s EXCEPT !.seeks = @ + 1,
            !.el.time = IF s.el.net = "ready" THEN Max(0, Min(t, elDuration(s))) ELSE 0]

\* ------------------------------------------------------------ selectTrack
\* player.tsx:48  Math.floor(Math.random() * availableTracks.length), with
\* Math.random() one of 0 and 1/2
randomIndex(s, availableTracks) == (s.rnd * Len(availableTracks)) \div 2

\* selectRandomTrack without the reset of retryCount
selectRandomTrack_KeepsCount(s, availableTracks) ==
  IF Len(availableTracks) = 0 THEN s
  ELSE [s EXCEPT !.currentTrack = availableTracks[randomIndex(s, availableTracks) + 1],
                 !.selected = @ + 1]

\* selectRandomTrack clearing the current track when the pool is empty
selectRandomTrack_Clears(s, availableTracks) ==
  IF Len(availableTracks) = 0 THEN [s EXCEPT !.currentTrack = NoTrack]
  ELSE [s EXCEPT !.currentTrack = availableTracks[randomIndex(s, availableTracks) + 1],
                 !.retryCount = 0,
                 !.selected = @ + 1]

\* player.tsx:44-56
selectRandomTrack(s, availableTracks) ==
  IF Len(availableTracks) = 0 THEN s
  ELSE [s EXCEPT !.currentTrack = availableTracks[randomIndex(s, availableTracks) + 1],
                 !.retryCount = 0,
                 !.selected = @ + 1]

\* ---------------------------------------------------------- AudioContext
\* audioContextRef.current && audioContextRef.current.state === "suspended";
\* a context just created reads "suspended" until the browser starts it
ctxSuspended(s) == s.ctx \in {"starting", "suspended"}

\* handleVisibilityChange calling play() a second time
visibleResume_Twice(s, c) ==
  IF c.playing /\ s.el.paused
  THEN elPlay(elPlay(s, [c EXCEPT !.k = "visible"]), [c EXCEPT !.k = "visible"])
  ELSE s

\* player.tsx:617-628, the part of handleVisibilityChange after the resume
visibleResume(s, c) ==
  IF c.playing /\ s.el.paused THEN elPlay(s, [c EXCEPT !.k = "visible"]) ELSE s

\* the catch around an awaited resume() or close() that was rejected
awaitRejected(s, c) ==
  CASE c.k = "start" ->     \* player.tsx:322-326
         [s EXCEPT !.isLoading = FALSE, !.error = "initPlayback"]
    [] c.k = "toggle" ->    \* player.tsx:354-359
         [s EXCEPT !.isPlaying = FALSE, !.isLoading = FALSE, !.error = "resume"]
    [] c.k = "manual" ->    \* player.tsx:490-494
         [s EXCEPT !.isLoading = FALSE, !.error = "retry"]
    [] c.k = "visible" ->   \* player.tsx:612-614
         visibleResume(s, c)
    [] c.k = "reset" ->     \* player.tsx:530-534
         [s EXCEPT !.isLoading = FALSE, !.error = "reset"]
    [] c.k = "init" ->      \* player.tsx:235-238
         [s EXCEPT !.error = "initAudio"]
    [] OTHER -> s           \* player.tsx:379-381

IsReset(c) == c.k = "reset"
IsResume(c) == c.k # "reset"

\* await of a resume() or close(): the continuation waits for the context;
\* while a close() is pending, the context rejects another close() and every
\* resume() at once
await(s, c) ==
  IF \E i \in 1 .. Len(s.resumes) : IsReset(s.resumes[i]) THEN awaitRejected(s, c)
  ELSE IF \E i \in 1 .. Len(s.resumes) : s.resumes[i] = c THEN s
  ELSE [s EXCEPT !.resumes = Append(@, c)]

setTimeout(s, c) == [s EXCEPT !.timers = Append(@, c), !.sets = @ + 1]

\* new AudioContext(), stored in audioContextRef (player.tsx:224, 518)
newContext(s) ==
  [s EXCEPT !.ctx = "starting",
            !.audio = [@ EXCEPT !.made = @ + 1, !.cur = s.audio.made + 1,
                                !.live = @ \cup {s.audio.made + 1}]]

\* close() of the context in audioContextRef has completed and the ref is
\* cleared (player.tsx:510-512)
closedContext(s) ==
  [s EXCEPT !.ctx = "null",
            !.audio = [@ EXCEPT !.live = @ \ {s.audio.cur}, !.cur = 0]]

\* player.tsx:219-239 initializeAudioContext, run by handleUserInteraction on
\* every click and touchstart on the window (player.tsx:242-248)
initializeAudioContext(s) ==
  LET s1 == IF s.ctx = "null" THEN newContext(s) ELSE s
  IN  IF ctxSuspended(s1) THEN await(s1, Cont(s1, "init")) ELSE s1

\* ----------------------------------------------------------- startPlayback
\* player.tsx:297-321, the part of startPlayback after the resume
startPlaybackLoad(s, c) ==
  LET s1 == IF readyState0(s) THEN elLoad(s, s.el.src) ELSE s
  IN  setTimeout(s1, [c EXCEPT !.k = "start"])

\* player.tsx:281-327; c is the closure startPlayback was created in
startPlayback(s, c) ==
  IF c.cur = NoTrack THEN s
  ELSE LET s1 == [s EXCEPT !.isLoading = TRUE]
       IN  IF ctxSuspended(s1) THEN await(s1, [c EXCEPT !.k = "start"])
           ELSE startPlaybackLoad(s1, c)

\* player.tsx:470-489, the part of retryCurrentTrack after the resume
retryLoad(s, c) ==
  setTimeout(elLoad(s, c.cur), [c EXCEPT !.k = "manual"])

\* player.tsx:508-529, the part of resetAudioSystem after the close
resetRebuild(s, c) ==
  LET s1 == newContext(s)
      s2 == IF c.cur # NoTrack THEN elLoad(s1, c.cur) ELSE s1
      s3 == [s2 EXCEPT !.isLoading = FALSE]
  IN  IF ~c.overlay THEN startPlayback(s3, c) ELSE s3

\* ------------------------------------------------- reactions to a promise
\* the code after an awaited play(), or its then(): by the place that called play()
playFulfilled(s, c) ==
  CASE c.k = "start" ->     \* player.tsx:308-313
         startProgressTracking(
           [s EXCEPT !.isPlaying = TRUE, !.showStartOverlay = FALSE,
                     !.isLoading = FALSE, !.error = NoError], c)
    [] c.k = "toggle" ->    \* player.tsx:349-353
         startProgressTracking(
           [s EXCEPT !.isPlaying = TRUE, !.isLoading = FALSE, !.error = NoError], c)
    [] c.k = "ended" ->     \* player.tsx:387-394
         [startProgressTracking(
            [s EXCEPT !.isPlaying = TRUE, !.isLoading = FALSE, !.error = NoError], c)
          EXCEPT !.trackEnded = FALSE]
    [] c.k = "manual" ->    \* player.tsx:478-481
         startProgressTracking([s EXCEPT !.isPlaying = TRUE, !.isLoading = FALSE], c)
    [] c.k = "change" ->    \* player.tsx:565-571
         [startProgressTracking([s EXCEPT !.isLoading = FALSE, !.error = NoError], c)
          EXCEPT !.trackEnded = FALSE]
    [] c.k = "visible" ->   \* player.tsx:621-622
         startProgressTracking(s, c)
    [] OTHER -> s           \* player.tsx:432 no then()

\* the catch of a play(): by the place that called play()
playRejected(s, c) ==
  CASE c.k = "start" ->     \* player.tsx:314-319
         [s EXCEPT !.isPlaying = FALSE, !.isLoading = FALSE, !.error = "play"]
    [] c.k = "toggle" ->    \* player.tsx:354-359
         [s EXCEPT !.isPlaying = FALSE, !.isLoading = FALSE, !.error = "resume"]
    [] c.k = "ended" ->     \* player.tsx:395-398
         startPlayback(s, c)
    [] c.k = "errRetry" ->  \* player.tsx:432-435
         selectRandomTrack(s, c.tracks)
    [] c.k = "manual" ->    \* player.tsx:482-487
         [s EXCEPT !.isPlaying = FALSE, !.isLoading = FALSE, !.error = "play"]
    [] c.k = "change" ->    \* player.tsx:572-577
         [s EXCEPT !.isPlaying = FALSE, !.isLoading = FALSE, !.error = "newTrack"]
    [] c.k = "visible" ->   \* player.tsx:623-627
         stopProgressTracking([s EXCEPT !.isPlaying = FALSE])
    [] OTHER -> s

\* the code after an awaited resume() or close() that resolved
awaitFulfilled(s, c) ==
  CASE c.k = "start" -> startPlaybackLoad(s, c)                    \* player.tsx:294
    [] c.k = "toggle" -> elPlay(s, c)                              \* player.tsx:344-348
    [] c.k = "manual" -> retryLoad(s, c)                           \* player.tsx:467
    [] c.k = "visible" -> visibleResume(s, c)                      \* player.tsx:611
    [] c.k = "reset" -> resetRebuild(s, c)                         \* player.tsx:508
    [] OTHER -> s                                       \* player.tsx:233, 379

\* one microtask: the reaction of a settled play() promise
runJob(s, j) ==
  LET s1 == IF j.ok THEN playFulfilled(s, j.c) ELSE playRejected(s, j.c)
  IN  [s1 EXCEPT !.ran = Append(@,
         [k |-> j.c.k, track |-> j.track, ok |-> j.ok,
          stale |-> s.currentTrack # j.track,
          changed |-> <<s1.isPlaying, s1.isLoading, s1.error>>
                        # <<s.isPlaying, s.isLoading, s.error>>])]

RECURSIVE Drain(_)
\* the microtask checkpoint at the end of a task
Drain(s) ==
  IF s.jobs = <<>> THEN s
  ELSE Drain(runJob([s EXCEPT !.jobs = Tail(@)], Head(s.jobs)))

\* ------------------------------------------------------------------ timers
delay(c) == IF c.k = "errRetry" THEN RetryDelay ELSE PlayDelay

\* the callback of a setTimeout, by the place that set it
timerFired(s, c) ==
  CASE c.k = "ended" ->     \* player.tsx:375-402
         LET s1 == IF ctxSuspended(s) THEN await(s, Cont(s, "log")) ELSE s
         IN  elPlay(s1, c)
    [] OTHER ->             \* player.tsx:303-321, 430-437, 474-489, 560-579
         elPlay(s, c)

\* ------------------------------------------------------ render and effects
\* player.tsx:187-214: the effect starts another fetch (a fetch beyond
\* MaxFetches is one whose answer never arrives)
fetchEffect(s) == [s EXCEPT !.fetches.more = Min(MaxFetches, @ + 1)]

\* player.tsx:268-278, with its cleanup
pollingEffect(s) ==
  IF s.view.isPlaying THEN startProgressTracking(s, Cont(s, "poll"))
  ELSE stopProgressTracking(s)

\* player.tsx:546-583
trackChangeEffect(s) ==
  IF s.view.currentTrack = NoTrack THEN s
  ELSE LET s1 == stopProgressTracking([s EXCEPT !.isLoading = TRUE, !.currentTime = 0])
           s2 == elLoad(s1, s.view.currentTrack)
       IN  IF s.view.isPlaying \/ s2.trackEnded
           THEN setTimeout(s2, Cont(s2, "change"))
           ELSE [s2 EXCEPT !.isLoading = FALSE]

\* visualizer.tsx:23-69, the function setupAudioAnalyzer of the setup effect:
\* the analyser and the source are made when they are missing.
\* createMediaElementSource throws when the element is connected to a source
\* node already; the catch makes a new analyser if the message of the error
\* names "MediaElementAudioSource", and the error is thrown on and logged
\* otherwise.
connectAnalyser(s) ==
  LET a0 == s.audio
      a1 == IF a0.analyser = 0
            THEN [a0 EXCEPT !.analyser = a0.prop, !.nodes = @ + 1]
            ELSE a0
      a2 == IF a1.source # 0 THEN [a1 EXCEPT !.attempted = TRUE]
            ELSE IF ~a1.bound
            THEN [a1 EXCEPT !.source = a1.prop, !.bound = TRUE, !.out = TRUE,
                            !.attempted = TRUE]
            ELSE IF a1.named
            THEN [a1 EXCEPT !.analyser = a1.prop, !.nodes = @ + 1, !.out = TRUE,
                            !.attempted = TRUE]
            ELSE a1
  IN  [s EXCEPT !.audio = a2]

\* the setup effect of the visualizer (visualizer.tsx:19-92)
setupAudioAnalyzer(s) ==
  IF s.audio.prop = 0 THEN s
  ELSE IF (s.audio.prop = s.audio.cur /\ s.ctx = "running") \/ ~s.audio.attempted
       THEN connectAnalyser(s)
       ELSE s

\* visualizer.tsx:77-81, the callback of the one-second interval of the effect
checkState(s) ==
  IF s.audio.prop = s.audio.cur /\ s.ctx = "running" /\ ~s.audio.attempted
  THEN connectAnalyser(s)
  ELSE s

\* visualizer.tsx:128  audioContext?.state === "running", of the context the
\* visualizer was rendered with
propRunning(s) == s.audio.prop # 0 /\ s.audio.prop = s.audio.cur /\ s.ctx = "running"

\* draw reading the analyser whatever the transport
draw_Always(s) ==
  IF s.audio.analyser # 0 /\ propRunning(s) THEN "frequency" ELSE "idle"

\* visualizer.tsx:114-294, one animation frame: the branch draw takes, with
\* the isPlaying of the render that created it
draw(s) ==
  IF s.audio.analyser # 0 /\ s.view.isPlaying /\ propRunning(s) THEN "frequency"
  ELSE "idle"

\* one render: the closures see the new values and the effects whose
\* dependencies changed run, in the order the component declares them
Render(s) ==
  LET n == Snapshot(s)
      v == s.view
      trackCh == n.currentTrack # v.currentTrack
      playCh == n.isPlaying # v.isPlaying
      \* updateProgress, so startProgressTracking, is a new function (player.tsx:68, 74)
      progCh == n.duration # v.duration \/ n.isDragging # v.isDragging
      \* selectRandomTrack is a new function (player.tsx:55)
      selCh == s.tracksFresh
      s0 == [s EXCEPT !.view = n, !.tracksFresh = FALSE]
      s1 == IF trackCh \/ selCh THEN fetchEffect(s0) ELSE s0
      s2 == IF playCh \/ progCh THEN pollingEffect(s1) ELSE s1
      s3 == IF trackCh \/ playCh \/ progCh THEN trackChangeEffect(s2) ELSE s2
      \* the visualizer is rendered with audioContextRef.current (player.tsx:712-716)
      s4 == [s3 EXCEPT !.audio.prop = s.audio.cur]
  IN  IF s.audio.cur # s.audio.prop THEN setupAudioAnalyzer(s4) ELSE s4

RECURSIVE RenderAll(_)
\* render until the effects have stopped setting state
RenderAll(s) == IF Dirty(s) THEN RenderAll(Render(s)) ELSE s

\* a task whose updates React renders before the next task (a discrete event)
Discrete(s) == Drain(RenderAll(s))

\* ---------------------------------------------------------------- handlers
\* handleTrackEnded without the timer that calls play()
handleTrackEnded_NoPlay(s) ==
  LET s1 == stopProgressTracking([s EXCEPT !.trackEnded = TRUE])
  IN  selectRandomTrack([s1 EXCEPT !.currentTime = 0], s.view.tracks)

\* player.tsx:364-403
handleTrackEnded(s) ==
  LET s1 == stopProgressTracking([s EXCEPT !.trackEnded = TRUE])
      s2 == selectRandomTrack([s1 EXCEPT !.currentTime = 0], s.view.tracks)
  IN  setTimeout(s2, Cont(s, "ended"))

\* player.tsx:645-655
handleTimeUpdate(s) ==
  IF elDuration(s) > 0
     /\ elDuration(s) - s.el.time < NearEnd
     /\ ~s.trackEnded
     /\ elDuration(s) > MinForcedEnd
  THEN handleTrackEnded(s)
  ELSE s

\* player.tsx:406-411
skipToNext(s) ==
  selectRandomTrack([stopProgressTracking(s) EXCEPT !.currentTime = 0], s.view.tracks)

\* handleError retrying without end: no selection when the retries are used up
handleError_KeepsTrack(s) ==
  LET s1 == stopProgressTracking([s EXCEPT !.error = "media"])
  IN  IF s.view.retryCount < RetryLimit
      THEN setTimeout(elLoad([s1 EXCEPT !.retryCount = @ + 1], s1.el.src),
                      Cont(s, "errRetry"))
      ELSE s1

\* player.tsx:414-444
handleError(s) ==
  LET s1 == stopProgressTracking([s EXCEPT !.error = "media"])
  IN  IF s.view.retryCount < RetryLimit
      THEN setTimeout(elLoad([s1 EXCEPT !.retryCount = @ + 1], s1.el.src),
                      Cont(s, "errRetry"))
      ELSE selectRandomTrack(s1, s.view.tracks)

\* togglePlayPause calling play() whatever the transport
togglePlayPause_NoPause(s) ==
  LET s1 == [s EXCEPT !.isLoading = TRUE]
  IN  IF ctxSuspended(s1) THEN await(s1, Cont(s, "toggle"))
      ELSE elPlay(s1, Cont(s, "toggle"))

\* togglePlayPause with the pause button reporting its press as an error
togglePlayPause_Reports(s) ==
  IF s.view.isPlaying
  THEN stopProgressTracking([elPause(s) EXCEPT !.isPlaying = FALSE, !.error = "resume"])
  ELSE LET s1 == [s EXCEPT !.isLoading = TRUE]
       IN  IF ctxSuspended(s1) THEN await(s1, Cont(s, "toggle"))
           ELSE elPlay(s1, Cont(s, "toggle"))

\* player.tsx:330-361
togglePlayPause(s) ==
  IF s.view.isPlaying
  THEN stopProgressTracking([elPause(s) EXCEPT !.isPlaying = FALSE])
  ELSE LET s1 == [s EXCEPT !.isLoading = TRUE]
       IN  IF ctxSuspended(s1) THEN await(s1, Cont(s, "toggle"))
           ELSE elPlay(s1, Cont(s, "toggle"))

\* player.tsx:455-495
retryCurrentTrack(s) ==
  IF s.view.currentTrack = NoTrack THEN s
  ELSE LET s1 == [s EXCEPT !.isLoading = TRUE, !.error = NoError, !.currentTime = 0]
       IN  IF ctxSuspended(s1) THEN await(s1, Cont(s, "manual"))
           ELSE retryLoad(s1, Cont(s, "manual"))

\* resetAudioSystem making the new context without closing the old one
resetAudioSystem_NoClose(s) ==
  LET s1 == stopProgressTracking(
              [s EXCEPT !.isLoading = TRUE, !.error = NoError, !.currentTime = 0])
  IN  resetRebuild(s1, Cont(s, "reset"))

\* player.tsx:498-535
resetAudioSystem(s) ==
  LET s1 == stopProgressTracking(
              [s EXCEPT !.isLoading = TRUE, !.error = NoError, !.currentTime = 0])
  IN  IF s1.ctx # "null" THEN await(s1, Cont(s, "reset"))
      ELSE resetRebuild(s1, Cont(s, "reset"))

\* player.tsx:447-452
toggleMute(s) == [s EXCEPT !.muted = ~s.view.muted]

\* player.tsx:538-543
handleMetadataLoaded(s) == [s EXCEPT !.duration = elDuration(s)]

\* player.tsx:867-870
onPlay(s) == [s EXCEPT !.isPlaying = TRUE]

\* player.tsx:871-875
onPause(s) == stopProgressTracking([s EXCEPT !.isPlaying = FALSE])

\* player.tsx:603-635
handleVisibilityChange(s) ==
  IF ~s.hidden
  THEN IF ctxSuspended(s) THEN await(s, Cont(s, "visible"))
       ELSE visibleResume(s, Cont(s, "visible"))
  ELSE IF s.view.isPlaying THEN stopProgressTracking(s) ELSE s

\* the watchdog not looking at the element
watchdog_Blind(s) ==
  IF s.view.isPlaying
  THEN stopProgressTracking([s EXCEPT !.isPlaying = FALSE])
  ELSE s

\* player.tsx:586-599, the callback of the one-second interval
watchdog(s) ==
  IF s.el.paused /\ s.view.isPlaying
  THEN stopProgressTracking([s EXCEPT !.isPlaying = FALSE])
  ELSE s

\* ------------------------------------------------------------ progress bar
\* player.tsx:85-104; d is the duration of the closure
handleProgressBarInteraction(s, clientX, d) ==
  IF d <= 0 THEN s
  ELSE LET off == Max(0, Min(rect.width, clientX - rect.left))   \* clampedPosition
           newTime == (off * d) \div rect.width
       IN  elSeek([s EXCEPT !.currentTime = newTime], newTime)

\* player.tsx:107-113
handleProgressBarClick(s, clientX) ==
  handleProgressBarInteraction(s, clientX, s.view.duration)

\* player.tsx:116-145, up to the listeners it adds to the document
handleProgressBarMouseDown(s) ==
  [stopProgressTracking([s EXCEPT !.isDragging = TRUE])
   EXCEPT !.dragCl = [on |-> TRUE, touch |-> FALSE, drag |-> s.view.isDragging,
                      dur |-> s.view.duration]]

\* player.tsx:123-126, 159-164
handleMouseMove(s, clientX) == handleProgressBarInteraction(s, clientX, s.dragCl.dur)

\* player.tsx:129-138, 167-177
handleMouseUp(s, clientX) ==
  LET s1 == handleProgressBarInteraction([s EXCEPT !.isDragging = FALSE], clientX,
                                         s.dragCl.dur)
  IN  [startProgressTracking(s1, s.dragCl) EXCEPT !.dragCl = NoDrag]

\* player.tsx:148-184, up to the listeners it adds to the document
handleProgressBarTouchStart(s, clientX) ==
  LET s1 == stopProgressTracking([s EXCEPT !.isDragging = TRUE])
      s2 == handleProgressBarInteraction(s1, clientX, s.view.duration)
  IN  [s2 EXCEPT !.dragCl = [on |-> TRUE, touch |-> TRUE, drag |-> s.view.isDragging,
                             dur |-> s.view.duration]]

\* player.tsx:756-757: the start overlay covers the bar (absolute inset-0 z-10)
barReachable == ~(view.showStartOverlay /\ view.currentTrack # NoTrack)

\* ------------------------------------------------------------ catalog fetch
\* fetchTracks taking an empty listing for a failed fetch
fetchTracks_OneError(s, cur, o) ==
  IF ~o.ok \/ Len(o.tracks) = 0 THEN [s EXCEPT !.error = "loadFailed"]
  ELSE LET s1 == [s EXCEPT !.tracks = o.tracks, !.tracksFresh = TRUE]
       IN  IF cur = NoTrack THEN selectRandomTrack(s1, o.tracks) ELSE s1

\* player.tsx:188-211, the code after the fetch; cur is the currentTrack of
\* the closure, o the answer of GET /api/music (route.ts:5-24)
fetchTracks(s, cur, o) ==
  IF ~o.ok THEN [s EXCEPT !.error = "loadFailed"]
  ELSE IF Len(o.tracks) = 0 THEN [s EXCEPT !.error = "noTracks"]
  ELSE LET s1 == [s EXCEPT !.tracks = o.tracks, !.tracksFresh = TRUE]
       IN  IF cur = NoTrack THEN selectRandomTrack(s1, o.tracks) ELSE s1

\* -------------------------------------------------------------- behaviour
\* the component after it mounted: nothing selected, the first fetch in flight
Init ==
  /\ tracks = <<>> /\ currentTrack = NoTrack /\ isPlaying = FALSE /\ error = NoError
  /\ muted = FALSE /\ showStartOverlay = TRUE /\ isLoading = FALSE /\ retryCount = 0
  /\ currentTime = 0 /\ duration = 0 /\ isDragging = FALSE
  /\ view = [tracks |-> <<>>, currentTrack |-> NoTrack, isPlaying |-> FALSE,
             error |-> NoError, muted |-> FALSE, showStartOverlay |-> TRUE,
             isLoading |-> FALSE, retryCount |-> 0, duration |-> 0,
             isDragging |-> FALSE]
  /\ tracksFresh = FALSE
  /\ progressInterval = NoInterval
  /\ trackEnded = FALSE
  /\ ctx = "null"
  /\ el = [src |-> NoTrack, paused |-> TRUE, time |-> 0, net |-> "empty",
           pend |-> <<>>, elq |-> <<>>]
  /\ timers = <<>> /\ resumes = <<>>
  /\ fetches = [first |-> TRUE, more |-> 0]
  /\ dragCl = NoDrag
  /\ mayPlay \in BOOLEAN
  /\ hidden = FALSE
  /\ catalog \in Listings
  /\ broken \in SUBSET {catalog[i] : i \in 1 .. Len(catalog)}
  /\ audio \in {[NoAudio EXCEPT !.named = b] : b \in BOOLEAN}
  /\ failures = 0
  /\ last = [op |-> "mount", ran |-> <<>>, seeks |-> 0, selected |-> 0, plays |-> 0,
             sets |-> 0, playing |-> FALSE, rc |-> 0, track |-> NoTrack,
             polling |-> FALSE]

RECURSIVE QueuedPlays(_)
QueuedPlays(q) == IF q = <<>> THEN 0 ELSE Len(Head(q).ps) + QueuedPlays(Tail(q))

\* the bounds of the model
Bounded(r) ==
  /\ \/ Len(r.timers) <= MaxTimers
     \/ /\ Len(r.timers) <= MaxRetryTimers
        /\ \A i \in 1 .. Len(r.timers) : r.timers[i].k = "errRetry"
  /\ Len(r.el.pend) + QueuedPlays(r.el.elq) <= MaxPlays
  /\ Len(r.resumes) <= MaxResumes
  /\ r.retryCount <= MaxRetry
  /\ r.audio.made <= MaxContexts

\* the tasks that are queued already: those of the element, of React and of
\* an audio context that is starting
Queued == {"play", "pause", "resolve", "Render", "ContextResumed", "ContextResumeFails"}

\* the events the user makes on the page, which a hidden page does not get
UserOps == {"ClickStart", "ClickToggle", "ClickSkip", "ClickMute", "ClickRetry",
            "ClickReset", "ClickBar", "MouseDown", "MouseMove", "MouseUp",
            "TouchStart", "TouchMove", "TouchEnd"}

\* the step that ends in state r, made by handler op; a task that is queued
\* is served before the events that come after it
Step(r, op) ==
  /\ Bounded(r)
  /\ op \in Queued \/ (el.elq = <<>> /\ ctx # "starting")
  /\ op \in UserOps => ~hidden
  /\ tracks' = r.tracks /\ currentTrack' = r.currentTrack /\ isPlaying' = r.isPlaying
  /\ error' = r.error /\ muted' = r.muted /\ showStartOverlay' = r.showStartOverlay
  /\ isLoading' = r.isLoading /\ retryCount' = r.retryCount
  /\ currentTime' = r.currentTime /\ duration' = r.duration
  /\ isDragging' = r.isDragging /\ view' = r.view /\ tracksFresh' = r.tracksFresh
  /\ progressInterval' = r.progressInterval /\ trackEnded' = r.trackEnded
  /\ ctx' = r.ctx /\ el' = r.el /\ timers' = r.timers /\ resumes' = r.resumes
  /\ fetches' = r.fetches /\ dragCl' = r.dragCl /\ mayPlay' = r.mayPlay
  /\ hidden' = r.hidden /\ catalog' = catalog /\ broken' = broken
  /\ audio' = r.audio
  /\ failures' = IF r.el.src # el.src \/ \E i \in 1 .. Len(r.ran) : r.ran[i].ok THEN 0
                 ELSE IF op = "MediaLoadFails" THEN Min(MaxFailures, failures + 1)
                 ELSE failures
  /\ last' = [op |-> op, ran |-> r.ran, seeks |-> r.seeks, selected |-> r.selected,
              plays |-> r.plays, sets |-> r.sets, playing |-> isPlaying,
              rc |-> view.retryCount, track |-> currentTrack,
              polling |-> progressInterval.on]

\* a user gesture on the page counts as user activation from its start
User(s) == [s EXCEPT !.mayPlay = TRUE]

\* after the handler of the element, a click or touchstart reaches
\* handleUserInteraction on the window (player.tsx:242-248)
Gesture(r) == Discrete(initializeAudioContext(r))
Pointer(r) == Discrete(r)

\* one task of the event loop: the handler F applied to the state, for each
\* value Math.random() can return if the handler consults it
Task(F(_), op) ==
  LET r0 == F(St(0))
  IN  \/ Step(r0, op)
      \/ r0.selected > 0 /\ Step(F(St(1)), op)

\* --- the user
\* player.tsx:768-772  the Start Music button
ClickStart ==
  /\ view.showStartOverlay /\ view.currentTrack # NoTrack /\ ~view.isLoading
  /\ Task(LAMBDA s : Gesture(startPlayback(User(s), Cont(s, "start"))), "ClickStart")

\* the play/pause button enabled while there is no track
ClickToggle_Enabled ==
  /\ ~view.isLoading
  /\ Task(LAMBDA s : Gesture(togglePlayPause(User(s))), "ClickToggle")

\* player.tsx:820-826  the play/pause button
ClickToggle ==
  /\ ~(view.isLoading \/ view.currentTrack = NoTrack \/ Len(view.tracks) = 0)
  /\ Task(LAMBDA s : Gesture(togglePlayPause(User(s))), "ClickToggle")

\* player.tsx:835-841  the skip button
ClickSkip ==
  /\ ~(view.isLoading \/ Len(view.tracks) = 0)
  /\ Task(LAMBDA s : Gesture(skipToNext(User(s))), "ClickSkip")

\* player.tsx:844-850  the mute button
ClickMute ==
  /\ ~view.isLoading
  /\ Task(LAMBDA s : Gesture(toggleMute(User(s))), "ClickMute")

\* player.tsx:680-706  the Retry and Reset Audio buttons of the error banner
ClickRetry ==
  /\ view.error # NoError
  /\ Task(LAMBDA s : Gesture(retryCurrentTrack(User(s))), "ClickRetry")

ClickReset ==
  /\ view.error # NoError
  /\ Task(LAMBDA s : Gesture(resetAudioSystem(User(s))), "ClickReset")

\* player.tsx:729-735  the progress bar: click, mouse drag, touch drag
ClickBar ==
  /\ barReachable /\ ~dragCl.on
  /\ \E x \in BarXs :
       Task(LAMBDA s : Gesture(handleProgressBarClick(User(s), x)), "ClickBar")

MouseDown ==
  /\ barReachable /\ ~dragCl.on
  /\ Task(LAMBDA s : Pointer(handleProgressBarMouseDown(User(s))), "MouseDown")

MouseMove ==
  /\ dragCl.on /\ ~dragCl.touch
  /\ \E x \in PointerXs : Task(LAMBDA s : Drain(handleMouseMove(s, x)), "MouseMove")

MouseUp ==
  /\ dragCl.on /\ ~dragCl.touch
  /\ \E x \in PointerXs : Task(LAMBDA s : Pointer(handleMouseUp(User(s), x)), "MouseUp")

TouchStart ==
  /\ barReachable /\ ~dragCl.on
  /\ \E x \in BarXs :
       Task(LAMBDA s : Gesture(handleProgressBarTouchStart(User(s), x)), "TouchStart")

TouchMove ==
  /\ dragCl.on /\ dragCl.touch
  /\ \E x \in PointerXs : Task(LAMBDA s : Drain(handleMouseMove(s, x)), "TouchMove")

TouchEnd ==
  /\ dragCl.on /\ dragCl.touch
  /\ \E x \in PointerXs : Task(LAMBDA s : Pointer(handleMouseUp(User(s), x)), "TouchEnd")

\* --- the catalog service
\* the answers of GET /api/music (route.ts:5-24): the listing, or a failure
FetchOutcomes == {[ok |-> FALSE, tracks |-> <<>>], [ok |-> TRUE, tracks |-> catalog]}

\* the fetch of the mount effect (closure: currentTrack = null) completes
FetchFirstDone ==
  /\ fetches.first
  /\ \E o \in FetchOutcomes :
       Task(LAMBDA s : Drain(fetchTracks([s EXCEPT !.fetches.first = FALSE], NoTrack, o)),
            "FetchDone")

\* a fetch started by a later run of the effect completes; its closure holds
\* the track that was current when it started
FetchMoreDone ==
  /\ fetches.more > 0
  /\ \E o \in FetchOutcomes :
       Task(LAMBDA s : Drain(fetchTracks([s EXCEPT !.fetches.more = @ - 1], TrackA, o)),
            "FetchDone")

\* --- React
\* the render React scheduled for the updates of a task that was no discrete event
RenderStep ==
  /\ Dirty(St(0))
  /\ Task(LAMBDA s : Discrete(s), "Render")

\* --- the audio element
\* the source loaded: loadedmetadata, and playback starts if play() was called
mediaLoaded(s) ==
  LET s1 == handleMetadataLoaded([s EXCEPT !.el.net = "ready"])
  IN  IF s1.el.pend # <<>>
      THEN [s1 EXCEPT !.el.pend = <<>>,
                      !.el.elq = Append(@, [t |-> "resolve", ps |-> s1.el.pend])]
      ELSE s1

MediaLoaded ==
  /\ el.net = "loading" /\ el.src \notin broken
  /\ Task(LAMBDA s : Drain(mediaLoaded(s)), "MediaLoaded")

\* the source could not be loaded: the error event, then the pending play()
\* promises are rejected
mediaFailed(s) ==
  LET s1 == handleError([s EXCEPT !.el.net = "failed"])
  IN  [s1 EXCEPT !.jobs = @ \o Jobs(s1.el.pend, FALSE, s.el.src), !.el.pend = <<>>]

MediaLoadFails ==
  /\ el.net = "loading" /\ el.src \in broken
  /\ Task(LAMBDA s : Drain(mediaFailed(s)), "MediaLoadFails")

\* playback advances, short of the end: timeupdate, half way or 50 ms before
\* the end
MediaAdvance ==
  /\ ~el.paused /\ el.net = "ready"
  /\ \E t \in {TrackDuration(el.src) \div 2, TrackDuration(el.src) - 1} :
       /\ el.time < t
       /\ Task(LAMBDA s : Drain(handleTimeUpdate([s EXCEPT !.el.time = t])),
               "MediaAdvance")

\* playback reaches the end: timeupdate, pause and ended are fired in one task;
\* ended reaches the onEnded prop (player.tsx:862-865) and the listener of
\* player.tsx:658-672
mediaEnded(s) ==
  LET s1 == handleTimeUpdate([s EXCEPT !.el.time = TrackDuration(s.el.src)])
      s2 == Discrete(onPause([s1 EXCEPT !.el.paused = TRUE]))
  IN  handleTrackEnded(handleTrackEnded(s2))

MediaEnded ==
  /\ ~el.paused /\ el.net = "ready"
  /\ Task(LAMBDA s : Drain(mediaEnded(s)), "MediaEnded")

\* the oldest queued task of the element runs: the play event, the pause event
\* with the rejection of the promises pause() took, or the resolution of the
\* promises of a play() that started playback
elementTask(s) ==
  LET q == Head(s.el.elq)
      s1 == [s EXCEPT !.el.elq = Tail(@)]
  IN  CASE q.t = "play" -> Discrete(onPlay(s1))
        [] q.t = "pause" ->
             Drain([Discrete(onPause(s1)) EXCEPT !.jobs = Jobs(q.ps, FALSE, s.el.src)])
        [] OTHER -> Drain([s1 EXCEPT !.jobs = Jobs(q.ps, TRUE, s.el.src)])

ElementTask ==
  /\ el.elq # <<>>
  /\ Task(LAMBDA s : elementTask(s), Head(el.elq).t)

\* playback is paused from outside the page (media key, audio focus)
ExternalPause ==
  /\ ~el.paused
  /\ Task(LAMBDA s : elPause(s), "ExternalPause")

\* --- timers
\* a timer may fire when no older timer is due before it
TimerFires ==
  \E i \in 1 .. Len(timers) :
    /\ \A j \in 1 .. i - 1 : delay(timers[j]) > delay(timers[i])
    /\ LET rest == [j \in 1 .. Len(timers) - 1 |->
                      IF j < i THEN timers[j] ELSE timers[j + 1]]
       IN  Task(LAMBDA s : Drain(timerFired([s EXCEPT !.timers = rest], timers[i])),
                "Timer")

\* player.tsx:73  the 100 ms interval
PollTick ==
  /\ progressInterval.on
  /\ Task(LAMBDA s : updateProgress(s), "Poll")

\* player.tsx:590-596  the one-second interval, which exists while the effect
\* of the last render saw isPlaying
WatchdogTick ==
  /\ view.isPlaying
  /\ Task(LAMBDA s : watchdog(s), "Watchdog")

\* --- the page and the audio context
VisibilityChange ==
  Task(LAMBDA s : Drain(handleVisibilityChange([s EXCEPT !.hidden = ~hidden])),
       "Visibility")

RECURSIVE Settle(_, _, _)
\* the continuations cs waiting on the context run, those in oks fulfilled
Settle(s, cs, oks) ==
  IF cs = <<>> THEN s
  ELSE Settle(IF Head(cs) \in oks THEN awaitFulfilled(s, Head(cs))
              ELSE awaitRejected(s, Head(cs)), Tail(cs), oks)

Range(q) == {q[i] : i \in 1 .. Len(q)}

\* the context starts running: every resume() resolves
ContextResumed ==
  /\ ctx = "starting" \/ (ctx = "suspended" /\ \E i \in 1 .. Len(resumes) : IsResume(resumes[i]))
  /\ Task(LAMBDA s : Drain(Settle([s EXCEPT !.ctx = "running",
                                            !.resumes = SelectSeq(resumes, IsReset)],
                                  SelectSeq(resumes, IsResume), Range(resumes))),
          "ContextResumed")

\* the context cannot be started: every resume() is rejected
ContextResumeFails ==
  /\ ctx \in {"starting", "suspended"}
  /\ \E i \in 1 .. Len(resumes) : IsResume(resumes[i])
  /\ Task(LAMBDA s : Drain(Settle([s EXCEPT !.ctx = "suspended",
                                            !.resumes = SelectSeq(resumes, IsReset)],
                                  SelectSeq(resumes, IsResume), {})),
          "ContextResumeFails")

\* the context is closed: the first close() resolves, a second close() and
\* every resume() of the closed context are rejected
ContextClosed ==
  /\ \E i \in 1 .. Len(resumes) : IsReset(resumes[i])
  /\ Task(LAMBDA s : Drain(Settle([closedContext(s) EXCEPT !.resumes = <<>>],
                                  resumes, {Head(SelectSeq(resumes, IsReset))})),
          "ContextClosed")

\* the browser suspends the context of a hidden page
ContextSuspended ==
  /\ ctx = "running" /\ hidden
  /\ Task(LAMBDA s : [s EXCEPT !.ctx = "suspended"], "ContextSuspended")

Next ==
  \/ ClickStart \/ ClickToggle \/ ClickSkip \/ ClickMute \/ ClickRetry \/ ClickReset
  \/ ClickBar \/ MouseDown \/ MouseMove \/ MouseUp
  \/ TouchStart \/ TouchMove \/ TouchEnd
  \/ FetchFirstDone \/ FetchMoreDone \/ RenderStep
  \/ MediaLoaded \/ MediaLoadFails \/ MediaAdvance \/ MediaEnded
  \/ ElementTask \/ ExternalPause
  \/ TimerFires \/ PollTick \/ WatchdogTick
  \/ VisibilityChange
  \/ ContextResumed \/ ContextResumeFails \/ ContextClosed \/ ContextSuspended

Spec == Init /\ [][Next]_vars

\* ---------------------------------------------------------------- scenarios
\* The session is checked one scenario at a time: each fixes what public/music
\* holds and leaves out the events that play no part in it.  No session
\* connects the element to a second source node, so each is taken with one
\* wording of the browser's error for that (audio = NoAudio).

\* playback from start to the end of a track and on, pause, resume and skip;
\* every file loads
InitEnd == Init /\ catalog = <<TrackA, TrackB>> /\ broken = {} /\ audio = NoAudio

NextEnd ==
  \/ ClickStart \/ ClickToggle \/ ClickSkip
  \/ FetchFirstDone \/ RenderStep
  \/ MediaLoaded \/ MediaAdvance \/ MediaEnded
  \/ ElementTask \/ TimerFires \/ WatchdogTick
  \/ ContextResumed

SpecEnd == InitEnd /\ [][NextEnd]_vars

\* a file that cannot be loaded: the error events and the retry timers
InitRetry == Init /\ catalog = <<TrackA, TrackB>> /\ broken = {TrackA} /\ mayPlay
                  /\ audio = NoAudio

NextRetry ==
  \/ ClickStart
  \/ FetchFirstDone \/ RenderStep
  \/ MediaLoaded \/ MediaLoadFails
  \/ ElementTask \/ TimerFires
  \/ ContextResumed

SpecRetry == InitRetry /\ [][NextRetry]_vars

\* seeking on the progress bar, by click and by mouse drag
InitSeek == Init /\ catalog = <<TrackA, TrackB>> /\ broken = {} /\ mayPlay
                 /\ audio = NoAudio

NextSeek ==
  \/ ClickStart \/ ClickSkip
  \/ FetchFirstDone \/ RenderStep
  \/ MediaLoaded
  \/ ElementTask \/ TimerFires \/ PollTick
  \/ ClickBar \/ MouseDown \/ MouseMove \/ MouseUp
  \/ ContextResumed

SpecSeek == InitSeek /\ [][NextSeek]_vars

\* a file that cannot be loaded follows one that can: the end of a track, the
\* error events, skip
InitSkip == Init /\ catalog = <<TrackA, TrackB>> /\ broken = {TrackB} /\ mayPlay
                 /\ audio = NoAudio

NextSkip ==
  \/ ClickStart \/ ClickSkip
  \/ FetchFirstDone \/ RenderStep
  \/ MediaLoaded \/ MediaLoadFails \/ MediaEnded
  \/ ElementTask \/ TimerFires
  \/ ContextResumed

SpecSkip == InitSkip /\ [][NextSkip]_vars

\* one file that loads: pause from the page and from outside it, the page
\* hidden and shown again, the suspension of the audio context, the watchdog
InitWatch == Init /\ catalog = <<TrackA>> /\ broken = {} /\ mayPlay /\ audio = NoAudio

NextWatch ==
  \/ ClickStart \/ ClickToggle
  \/ FetchFirstDone \/ RenderStep
  \/ MediaLoaded \/ ElementTask \/ ExternalPause
  \/ TimerFires \/ WatchdogTick
  \/ VisibilityChange \/ ContextResumed \/ ContextSuspended

SpecWatch == InitWatch /\ [][NextWatch]_vars

\* the error banner over one file that loads: the Retry and Reset Audio
\* buttons, and an audio context that may fail to start
InitReset == Init /\ catalog = <<TrackA>> /\ broken = {} /\ mayPlay /\ audio = NoAudio

NextReset ==
  \/ ClickStart \/ ClickRetry \/ ClickReset
  \/ FetchFirstDone \/ RenderStep
  \/ MediaLoaded \/ ElementTask
  \/ TimerFires
  \/ ContextResumed \/ ContextResumeFails \/ ContextClosed

SpecReset == InitReset /\ [][NextReset]_vars

\* the Retry button over one file that cannot be loaded
InitManual == Init /\ catalog = <<TrackA>> /\ broken = {TrackA} /\ mayPlay
                   /\ audio = NoAudio

NextManual ==
  \/ ClickStart \/ ClickRetry
  \/ FetchFirstDone \/ RenderStep
  \/ MediaLoadFails \/ ElementTask
  \/ TimerFires
  \/ ContextResumed

SpecManual == InitManual /\ [][NextManual]_vars

\* one file played to its end, with an audio context the browser may refuse
\* to start
InitCtx == Init /\ catalog = <<TrackA>> /\ broken = {} /\ mayPlay /\ audio = NoAudio

NextCtx ==
  \/ ClickStart \/ ClickToggle
  \/ FetchFirstDone \/ RenderStep
  \/ MediaLoaded \/ MediaEnded \/ ElementTask
  \/ TimerFires
  \/ ContextResumed \/ ContextResumeFails

SpecCtx == InitCtx /\ [][NextCtx]_vars

\* the catalog fetches, over every listing, while the player starts
InitFetch == Init /\ broken = {} /\ mayPlay /\ audio = NoAudio

NextFetch ==
  \/ ClickStart
  \/ FetchFirstDone \/ FetchMoreDone \/ RenderStep
  \/ MediaLoaded \/ ElementTask
  \/ TimerFires
  \/ ContextResumed

SpecFetch == InitFetch /\ [][NextFetch]_vars

\* selectRandomTrack alone, applied to every pool of at most two tracks
Pools == {<<>>, <<TrackA>>, <<TrackB>>, <<TrackA, TrackB>>, <<TrackB, TrackA>>,
          <<TrackA, TrackA>>, <<TrackB, TrackB>>}

InitSelect ==
  /\ tracks \in Pools /\ currentTrack \in Tracks \cup {NoTrack}
  /\ retryCount \in 0 .. RetryLimit
  /\ isPlaying = FALSE /\ error = NoError
  /\ muted = FALSE /\ showStartOverlay = TRUE /\ isLoading = FALSE
  /\ currentTime = 0 /\ duration = 0 /\ isDragging = FALSE
  /\ view = [tracks |-> tracks, currentTrack |-> currentTrack, isPlaying |-> FALSE,
             error |-> NoError, muted |-> FALSE, showStartOverlay |-> TRUE,
             isLoading |-> FALSE, retryCount |-> retryCount, duration |-> 0,
             isDragging |-> FALSE]
  /\ tracksFresh = FALSE /\ progressInterval = NoInterval /\ trackEnded = FALSE
  /\ ctx = "null"
  /\ el = [src |-> NoTrack, paused |-> TRUE, time |-> 0, net |-> "empty",
           pend |-> <<>>, elq |-> <<>>]
  /\ timers = <<>> /\ resumes = <<>> /\ fetches = [first |-> FALSE, more |-> 0]
  /\ dragCl = NoDrag /\ mayPlay = FALSE /\ hidden = FALSE
  /\ catalog = <<>> /\ broken = {} /\ audio = NoAudio /\ failures = 0
  /\ last = [op |-> "mount", ran |-> <<>>, seeks |-> 0, selected |-> 0, plays |-> 0,
             sets |-> 0, playing |-> FALSE, rc |-> 0, track |-> NoTrack,
             polling |-> FALSE]

SelectTrack ==
  /\ last.op = "mount"
  /\ Task(LAMBDA s : selectRandomTrack(s, s.tracks), "select")

SpecSelect == InitSelect /\ [][SelectTrack]_vars

\* the setup of the visualizer alone: the render that passes it the context,
\* then the ticks of its interval, over the states its refs can be in (nothing
\* made; analyser and source made on a context c; the analyser made and the
\* source refused), over an element that is or is not connected to a source
\* node already, and over both wordings of the browser's error
Binds ==
  {[made |-> m, cur |-> m, live |-> {m}, prop |-> IF k = "none" THEN 0 ELSE c,
    analyser |-> IF k = "none" THEN 0 ELSE c,
    source |-> IF k = "made" THEN c ELSE 0,
    attempted |-> k = "made",
    bound |-> (k # "none" \/ b),
    out |-> k = "made",
    nodes |-> IF k = "none" THEN 0 ELSE 1,
    named |-> n] :
     m \in 1 .. MaxContexts, c \in 1 .. MaxContexts, k \in {"none", "made", "refused"},
     b \in BOOLEAN, n \in BOOLEAN}

InitBind ==
  /\ tracks = <<>> /\ currentTrack = NoTrack /\ retryCount = 0
  /\ isPlaying = FALSE /\ error = NoError
  /\ muted = FALSE /\ showStartOverlay = TRUE /\ isLoading = FALSE
  /\ currentTime = 0 /\ duration = 0 /\ isDragging = FALSE
  /\ view = [tracks |-> <<>>, currentTrack |-> NoTrack, isPlaying |-> FALSE,
             error |-> NoError, muted |-> FALSE, showStartOverlay |-> TRUE,
             isLoading |-> FALSE, retryCount |-> 0, duration |-> 0,
             isDragging |-> FALSE]
  /\ tracksFresh = FALSE /\ progressInterval = NoInterval /\ trackEnded = FALSE
  /\ ctx \in {"starting", "suspended", "running"}
  /\ el = [src |-> NoTrack, paused |-> TRUE, time |-> 0, net |-> "empty",
           pend |-> <<>>, elq |-> <<>>]
  /\ timers = <<>> /\ resumes = <<>> /\ fetches = [first |-> FALSE, more |-> 0]
  /\ dragCl = NoDrag /\ mayPlay = FALSE /\ hidden = FALSE
  /\ catalog = <<>> /\ broken = {} /\ failures = 0
  /\ audio \in {a \in Binds : a.analyser <= a.made}
  /\ last = [op |-> "mount", ran |-> <<>>, seeks |-> 0, selected |-> 0, plays |-> 0,
             sets |-> 0, playing |-> FALSE, rc |-> 0, track |-> NoTrack,
             polling |-> FALSE]

\* the visualizer is rendered with the context of audioContextRef and its
\* effect runs (player.tsx:712-716)
SetupAnalyzer ==
  /\ audio.prop # audio.cur
  /\ Task(LAMBDA s : setupAudioAnalyzer([s EXCEPT !.audio.prop = s.audio.cur]), "setup")

\* the interval of the effect ticks
CheckState ==
  /\ audio.prop = audio.cur
  /\ Task(LAMBDA s : checkState(s), "checkState")

NextBind == SetupAnalyzer \/ CheckState \/ ContextResumed

SpecBind == InitBind /\ [][NextBind]_vars

\* ------------------------------------------------------------------ claims
Playing == isPlaying
Ran(k, ok) == \E i \in 1 .. Len(last.ran) : last.ran[i].k = k /\ last.ran[i].ok = ok
Pending(k) == \E i \in 1 .. Len(timers) : timers[i].k = k
Moves == {"MouseMove", "TouchMove"}

\* C1: whenever the transport is Playing, a track is current.
C1_PlayingHasTrack == Playing => currentTrack # NoTrack

\* the play event of the element has set the transport to Playing
C1_Witness == Playing /\ currentTrack # NoTrack /\ last.op = "play"

\* C2: the reaction of a play() promise that settles after another track was
\* selected (the promise was for a track that is no longer current) changes
\* neither isPlaying nor isLoading nor error.
C2_StalePromiseIsNoOp ==
  \A i \in 1 .. Len(last.ran) : last.ran[i].stale => ~last.ran[i].changed

C4_RetryCountInRange == retryCount \in 0 .. RetryLimit

\* C5: a failure that finds retryCount < 3 keeps the track, adds one to
\* retryCount and sets the retry timer; a track is selected after the first
\* selection only by a failure that finds retryCount >= 3.
C5_RetryPolicy ==
  /\ (last.op = "MediaLoadFails" /\ last.rc < RetryLimit)
       => (currentTrack = last.track /\ Pending("errRetry") /\ last.selected = 0)
  /\ (last.selected > 0 /\ last.op # "FetchDone")
       => (last.op = "MediaLoadFails" /\ last.rc >= RetryLimit)

\* C6: the end of a track selects a track of the catalog and sets the timer
\* whose callback calls play(), with no user gesture; when that play() is
\* fulfilled the transport is Playing.
C6_EndedSelectsAndPlays ==
  /\ last.op = "MediaEnded"
       => (last.selected >= 1 /\ currentTrack \in Range(catalog) /\ Pending("ended"))
  /\ Ran("ended", TRUE) => Playing

\* a track has ended, and the play() of its timer was fulfilled
C6_Witness == last.op = "resolve" /\ Ran("ended", TRUE) /\ Playing

\* C7: a skip made while the transport is not Playing, with no timer pending
\* and no promise settling, sets no timer to play the track it selects and
\* calls no play().
C7_SkipWhilePausedStaysPaused ==
  (last.op = "ClickSkip" /\ ~last.playing /\ Len(timers) = last.sets /\ last.ran = <<>>)
    => (last.sets = 0 /\ last.plays = 0)

\* C8: after a seek the displayed position is within 0 .. duration.
C8_SeekWithinDuration ==
  (last.op \in Moves \cup {"ClickBar"} /\ last.seeks > 0)
    => (0 <= currentTime /\ currentTime <= duration)

\* C9: a move of a drag does not write the position of the element.
C9_MovesDoNotSeek == last.op \in Moves => last.seeks = 0

\* C10: selectRandomTrack leaves a member of a non-empty pool current, and
\* leaves currentTrack as it was for the empty pool.
C10_SelectFromPool ==
  [][IF tracks = <<>> THEN currentTrack' = currentTrack /\ last'.selected = 0
     ELSE currentTrack' \in Range(tracks) /\ last'.selected = 1]_vars

\* the second track of a pool of two has been selected
C10_Witness ==
  /\ last.op = "select" /\ last.selected = 1
  /\ Len(tracks) = 2 /\ tracks[1] # tracks[2] /\ currentTrack = tracks[2]

\* the state of the session that the page shows
Session == <<tracks, currentTrack, isPlaying, error, muted, showStartOverlay, isLoading,
             retryCount, currentTime, duration, isDragging>>

Rendered == ~Dirty(St(0))

\* C12: when the page of a Playing session is hidden, polling stops and the
\* transport and the element are left as they are; when the page is shown
\* again, polling is active again, also when the element kept playing.
C12_VisibilityRoundTrip ==
  [][/\ (last'.op = "Visibility" /\ hidden' /\ isPlaying /\ Rendered)
          => (~progressInterval'.on /\ isPlaying' /\ el' = el)
     /\ (last.op = "Visibility" /\ hidden /\ last.playing /\ last.polling
           /\ last'.op = "Visibility" /\ isPlaying /\ Rendered
           /\ ~el.paused /\ el.net = "ready" /\ el.pend = <<>>)
          => progressInterval'.on]_vars

\* C13: when the page is shown while the session is Playing and the element is
\* paused, play() is called once (after the resume of a suspended context);
\* when that play() is rejected the transport is Paused, polling is stopped and
\* the error is left as it was.
C13_VisibleResumesOnce ==
  [][/\ (last'.op = "Visibility" /\ ~hidden' /\ view.isPlaying /\ el.paused)
          => IF ctxSuspended(St(0))
             THEN last'.plays = 0 /\ \E i \in 1 .. Len(resumes') : resumes'[i].k = "visible"
             ELSE last'.plays = 1
     /\ (\A i \in 1 .. Len(last'.ran) : last'.ran[i].k = "visible" /\ ~last'.ran[i].ok)
          /\ last'.ran # <<>>
          => (~isPlaying' /\ ~progressInterval'.on /\ error' = error)]_vars

\* the play() called when the page was shown has been rejected
C13_Witness == Ran("visible", FALSE) /\ Len(last.ran) = 1 /\ ~isPlaying /\ error = NoError

\* C14: a tick of the watchdog that finds the session Playing and the element
\* paused sets the transport to Paused and stops polling; a tick that finds
\* the element playing leaves the transport and the polling as they are.
C14_Watchdog ==
  [][last'.op = "Watchdog"
       => IF el.paused THEN ~isPlaying' /\ ~progressInterval'.on
          ELSE UNCHANGED <<isPlaying, progressInterval>>]_vars

\* the watchdog has found the element paused and set the transport to Paused
C14_Witness == last.op = "Watchdog" /\ last.playing /\ ~isPlaying /\ el.paused

\* C15: a press of the Retry button leaves currentTrack as it is, reloads that
\* track (at once unless it has to wait for the audio context) and leaves
\* retryCount at 0.
C15_ManualRetryResetsCount ==
  [][(last'.op = "ClickRetry" /\ view.currentTrack # NoTrack)
       => /\ currentTrack' = currentTrack
          /\ retryCount' = 0
          /\ ~ctxSuspended(St(0)) => (el'.src = currentTrack /\ el'.net = "loading")]_vars

\* C16: at most one audio context is live (made and not closed), and it is
\* the one audioContextRef holds: every context a reset replaced is closed,
\* also when a reset overlaps another reset or the initialisation of a gesture.
C16_OneLiveContext ==
  /\ Cardinality(audio.live) <= 1
  /\ audio.live \subseteq {audio.cur}

\* a reset replaced the first context while a second press of Reset Audio,
\* made during the close, was turned down
C16_Witness ==
  /\ last.op = "ContextClosed" /\ error = "reset"
  /\ audio.made = 2 /\ audio.cur = 2 /\ audio.live = {2}

\* C17: when the close() of a reset has completed, the old context is closed
\* and the only live context is the new one, the track of the reset is being
\* reloaded, and once the visualizer has been rendered with the new context
\* its analyser and its source belong to that context.
C17_ResetRebuildsAnalysis ==
  [][/\ last'.op = "ContextClosed"
          => /\ audio.cur \notin audio'.live /\ audio'.live = {audio'.cur}
             /\ LET c == Head(SelectSeq(resumes, IsReset))
                IN  c.cur # NoTrack => (el'.src = c.cur /\ el'.net = "loading")
     /\ (audio'.made > 1 /\ audio'.prop = audio'.cur)
          => (audio'.analyser = audio'.cur /\ audio'.source = audio'.cur)]_vars

\* the continuations of the play attempts that resume the context first:
\* start, toggle, the timer after the end of a track, manual retry
AttemptKinds == {"start", "toggle", "log", "manual"}

\* C18: a play attempt that finds the audio context suspended calls play()
\* only after its resume() has completed: no play() is called in the task
\* that requests the resume, and none when the resume is rejected.
C18_PlayWaitsForResume ==
  [][/\ (\E i \in 1 .. Len(resumes') :
            resumes'[i].k \in AttemptKinds /\ resumes'[i] \notin Range(resumes))
          => last'.plays = 0
     /\ (last'.op = "ContextResumeFails"
            /\ \A i \in 1 .. Len(resumes) : resumes[i].k \in AttemptKinds \cup {"init"})
          => last'.plays = 0]_vars

\* something is pending that will run code of the player: a timer, a resume()
\* or close(), a play() promise, a task of the element, a render
WorkPending ==
  \/ timers # <<>> \/ resumes # <<>>
  \/ el.pend # <<>> \/ el.elq # <<>>
  \/ Dirty(St(0))

\* C19: the session is never stuck in Loading: while isLoading is true a
\* resume, play or close is still pending, and when the failure of one ends
\* the loading, the transport is not Playing and an error is recorded.
C19_LoadingEnds ==
  [][/\ isLoading' => WorkPending'
     /\ (isLoading /\ ~isLoading'
           /\ \/ last'.op = "ContextResumeFails"
              \/ last'.ran # <<>> /\ \A i \in 1 .. Len(last'.ran) : ~last'.ran[i].ok)
          => (~isPlaying' /\ error' # NoError)]_vars

\* C20: a catalog fetch that failed records the 'failed to load' error, one
\* that succeeded with no tracks records the other, 'no tracks found' error;
\* both leave currentTrack and the transport as they were, so after the
\* first fetch of the page currentTrack is still null and nothing is playing.
C20_FetchErrors ==
  [][last'.op = "FetchDone"
       => \A o \in FetchOutcomes :
            LET r == fetchTracks(St(0), IF fetches.first THEN NoTrack ELSE TrackA, o)
            IN  (<<tracks', currentTrack', isPlaying', error'>>
                   = <<r.tracks, r.currentTrack, r.isPlaying, r.error>>
                 /\ (~o.ok \/ o.tracks = <<>>))
                  => /\ error' = IF o.ok THEN "noTracks" ELSE "loadFailed"
                     /\ "noTracks" # "loadFailed"
                     /\ UNCHANGED <<tracks, currentTrack, isPlaying>>
                     /\ fetches.first => (currentTrack' = NoTrack /\ ~isPlaying')]_vars

\* the first fetch found the directory empty
C20_Witness ==
  /\ last.op = "FetchDone" /\ catalog = <<>> /\ error = "noTracks"
  /\ currentTrack = NoTrack /\ ~isPlaying

\* C21: the catalog is fetched once: after the fetch of the mount no other
\* fetch is started, whatever state changes (tracks set, currentTrack changed).
C21_FetchOnce == fetches.more = 0

\* C22: before the first gesture of the user (no audio context made yet, the
\* start overlay never dismissed) no task calls play().
C22_NoPlayBeforeGesture ==
  [][(showStartOverlay' /\ audio'.made = 0) => last'.plays = 0]_vars

\* C23: when a failure finds the retries of the track used up and replaces
\* the track by a new selection, no error is left set.
C23_ReplacementLeavesNoError ==
  [][(last'.op = "MediaLoadFails" /\ last'.rc >= RetryLimit /\ last'.selected > 0)
       => error' = NoError]_vars

\* C24: whenever the duration is known (> 0), the position shown is at most
\* the duration, also across track changes and seeks.
C24_PositionWithinDuration == duration > 0 => currentTime <= duration

\* C25: a timer is cancelled when the track it was set for is left: when
\* currentTrack changes to another track, the only timers still pending are
\* the ones set in that task, so no timer of the old track can call play().
C25_TimersCancelledOnTrackChange ==
  [][(currentTrack # NoTrack /\ currentTrack' # currentTrack)
       => Len(timers') <= last'.sets]_vars

\* C26: while a drag of the progress bar is active, no tick of the polling
\* interval changes the position shown.
C26_NoPollDuringDrag ==
  [][(last'.op = "Poll" /\ isDragging /\ dragCl.on) => currentTime' = currentTime]_vars

\* C27: the end of a track is handled at most once: the task of the ended
\* event makes at most one track selection and sets at most one timer to
\* continue playing.
C27_EndHandledOnce ==
  [][last'.op = "MediaEnded" => (last'.selected <= 1 /\ last'.sets <= 1)]_vars

\* C28: a loaded media is reloaded only when currentTrack changes or by a
\* manual retry or reset: a change of the transport alone (pause, resume,
\* watchdog) leaves the media loaded and its position where it was.
C28_ReloadOnlyOnTrackChange ==
  [][(el.net = "ready" /\ el'.net # "ready")
       => \/ currentTrack' # view.currentTrack
          \/ last'.op \in {"ClickRetry", "ClickReset", "ContextClosed", "ContextResumed"}]_vars

\* C29: position polling is active only while the transport is Playing: once
\* the component has rendered its last update, an active polling interval
\* means isPlaying.
C29_PollingOnlyWhilePlaying == (progressInterval.on /\ Rendered) => isPlaying

\* C30: at most one polling interval exists: one while progressIntervalRef
\* holds an interval, none after stopProgressTracking.
C30_OnePollingInterval ==
  progressInterval.live = IF progressInterval.on THEN 1 ELSE 0

\* a play() that succeeded started the polling while an interval was active
C30_Witness ==
  /\ last.polling /\ progressInterval.on /\ progressInterval.live = 1
  /\ \E i \in 1 .. Len(last.ran) : last.ran[i].ok

\* C31: the track-ended flag is transient: it is set only while a timer, a
\* play() or a render of the end-of-track handling is still pending; once the
\* follow-up play attempt has settled, the flag is false.
C31_EndedFlagTransient == trackEnded => WorkPending

\* C32: when a play() promise is fulfilled and the transport is Playing after
\* its reaction, no error is recorded, whichever path called play().
C32_PlaySuccessClearsError ==
  [][((\E i \in 1 .. Len(last'.ran) : last'.ran[i].ok) /\ isPlaying')
       => error' = NoError]_vars

\* C33: when the transport is Playing and nothing more is pending, the start
\* overlay has been dismissed.
C33_PlayingDismissedOverlay == (isPlaying /\ ~WorkPending) => ~showStartOverlay

\* C34: selectRandomTrack over a non-empty pool leaves retryCount 0, and over
\* any pool leaves the transport, the mute state, the error and the audio
\* element as they were; over the pool a.mp3, b.mp3 with the random choice at
\* index 1 it makes b.mp3 current with retryCount 0 and the transport unchanged.
C34_SelectFrame ==
  [][/\ tracks # <<>> => retryCount' = 0
     /\ isPlaying' = isPlaying /\ isLoading' = isLoading /\ muted' = muted
     /\ error' = error /\ el' = el /\ timers' = timers
     /\ LET r == selectRandomTrack(St(1), <<TrackA, TrackB>>)
        IN  /\ randomIndex(St(1), <<TrackA, TrackB>>) = 1
            /\ r.currentTrack = TrackB /\ r.retryCount = 0
            /\ r.isPlaying = isPlaying]_vars

\* a track was selected from a pool while retryCount was above 0
C34_Witness ==
  /\ last.op = "select" /\ last.selected = 1 /\ last.rc > 0
  /\ retryCount = 0 /\ currentTrack \in Range(tracks)

\* C35: the play/pause button, pressed on a rendered player, dispatches on
\* the transport: while Playing it pauses the element, leaves the transport
\* not Playing and the polling stopped, and calls no play(); while not Playing
\* it calls play() once, or waits for the resume() of a suspended context
\* without calling play(), and does not set Playing in the task of the press.
\* The reaction to its play() leaves Playing exactly when play() succeeded.
C35_ToggleDispatches ==
  [][/\ (last'.op = "ClickToggle" /\ Rendered) =>
          IF isPlaying
          THEN el'.paused /\ ~isPlaying' /\ ~progressInterval'.on /\ last'.plays = 0
          ELSE /\ IF ctx = "suspended"
                  THEN /\ last'.plays = 0
                       /\ \E i \in 1 .. Len(resumes') : resumes'[i].k = "toggle"
                  ELSE last'.plays = 1
               /\ ~isPlaying'
     /\ (Len(last'.ran) = 1 /\ last'.ran[1].k = "toggle") =>
          (isPlaying' <=> last'.ran[1].ok)]_vars

\* the button was pressed while Playing and polling: paused, polling stopped
C35_Witness ==
  /\ last.op = "ClickToggle" /\ last.playing /\ last.polling /\ last.plays = 0
  /\ el.paused /\ ~isPlaying /\ ~progressInterval.on

\* C36: on a rendered player, an animation frame reads the frequency data
\* only while the transport is Playing, an analyser exists and the audio
\* context is running; in every other state it takes the idle branch.
C36_FeedOnlyWhilePlaying ==
  Rendered => (draw(St(0)) = "frequency"
                 => (isPlaying /\ audio.analyser # 0 /\ ctx = "running"))

\* a frame reads the frequency data of a playing track
C36_Witness ==
  /\ Rendered /\ draw(St(0)) = "frequency"
  /\ isPlaying /\ ~el.paused /\ audio.analyser # 0 /\ ctx = "running"

====
